---- MODULE Spec2Model ----
(***************************************************************************)
(* Model of src/app.py (Jira Worklog weekly calendar, a Streamlit script). *)
(*                                                                         *)
(* The script is re-executed top to bottom on every UI interaction.  Each   *)
(* action below is one interaction handled to completion: the on_change    *)
(* callback, the projection (lines 488-512), the navigation buttons (lines *)
(* 540-564), the calendar handlers with their debounce (lines 644-668),    *)
(* the draft editor (lines 673-814) and, when the code calls st.rerun(),   *)
(* the second execution of the script that follows.                        *)
(* Titles and colours of blocks are presentation and are left out.         *)
(*                                                                         *)
(* Spec is the session of one user.  LoopSpec is the paging loop of        *)
(* get_issue_worklogs, ProjSpec the projection over the worklogs a server  *)
(* may hold, ResolverSpec epic_link_jql_name over field catalogs, NavSpec  *)
(* the session with navigation by date and timezone selection.             *)
(* ConvSpec is jira_datetime_from_iso over date-time strings, ClickSpec    *)
(* the session with pointer positions off the five-minute grid, LookupSpec *)
(* the query loop of cached_issues_for_epic_and_assignee, FetchSpec the    *)
(* session whose reads of users, worklogs, epics and issues may fail, and  *)
(* EditSpec the session of a user with two worklogs in the visible week.   *)
(*                                                                         *)
(* Date-time strings are records [wall, off, fmt]: the wall-clock second   *)
(* count shown in the string, its numeric UTC offset in seconds, and the   *)
(* textual format.  The absolute instant of a string is wall - off.        *)
(***************************************************************************)
EXTENDS Integers, Sequences, FiniteSets, TLC

VARIABLES
    draft,        \* st.session_state["draft"]
    deb,          \* st.session_state["_deb_dateClick" / "_deb_eventClick" / "_deb_eventChange"]
    cal_state,    \* value of the calendar component (replayed on every run)
    events,       \* the list passed to calendar(events=...): the projection output
    cache,        \* st.cache_data store of cached_worklogs_week
    remote,       \* worklogs held by the Jira server
    visible,      \* st.session_state["visible_start"], ["visible_end"]
    account,      \* selected_account_id
    writes,       \* number of write requests the server has accepted
    calls,        \* the write requests sent by the latest interaction
    tz,           \* st.session_state["tz_select"]: the selected timezone
    pager,        \* the while loop of JiraClient.get_issue_worklogs against one server
    resolver,     \* one call of JiraClient.epic_link_jql_name: field catalog and result
    conv,         \* one call of jira_datetime_from_iso: input string and result
    lookup,       \* one call of cached_issues_for_epic_and_assignee: the for loop
    loads         \* the option lists the latest run of the script loaded

session == <<draft, deb, cal_state, events, cache, remote, visible, account,
             writes, calls, tz>>

vars == <<draft, deb, cal_state, events, cache, remote, visible, account,
          writes, calls, tz, pager, resolver, conv, lookup, loads>>

----------------------------------------------------------------------------
(* Bounds of the model *)

MaxWrites == 1
MaxWeek == 1
MaxLogs == 3
MaxOffset == 6
MaxFields == 2

(* Program constants, in seconds *)

Hour == 3600
MinDur == 60
Week == 604800
Day == 86400
Grid == 300

None == [none |-> TRUE]
Unset == [unset |-> TRUE]
Some(x) == [some |-> x]

Persons == {"u1", "u2"}
Me == "u1"
IssueOrder == <<"ABC-1", "ABC-2">>
Issues == {IssueOrder[i] : i \in 1..Len(IssueOrder)}
IdNames == <<"w1", "w2", "w3", "w4", "w5", "w6">>
Comments == {"", "test"}
\* what the issue select box / manual key field holds when Save is pressed
SaveKeys == {"", "ABC-2"}

----------------------------------------------------------------------------
(* Time/format utilities *)

Max(a, b) == IF a >= b THEN a ELSE b

Str(wall, off) == [wall |-> wall, off |-> off, fmt |-> "iso"]

Instant(s) == s.wall - s.off

parse_iso(s) == [wall |-> s.wall, off |-> s.off]

astimezone_utc(dt) == [wall |-> dt.wall - dt.off, off |-> 0]

plus(dt, secs) == [wall |-> dt.wall + secs, off |-> dt.off]

isoformat(dt) == [wall |-> dt.wall, off |-> dt.off, fmt |-> "iso"]

utc_iso(s) == isoformat(astimezone_utc(parse_iso(s)))

\* mutant: the local time is formatted, without the conversion to UTC
jira_datetime_from_iso_local(iso_str) ==
    LET dt == parse_iso(iso_str)
    IN  [wall |-> dt.wall, off |-> dt.off, fmt |-> "jira"]

jira_datetime_from_iso(iso_str) ==
    LET dt == astimezone_utc(parse_iso(iso_str))
    IN  [wall |-> dt.wall, off |-> dt.off, fmt |-> "jira"]

adf_comment(text) ==
    IF text = "" THEN None ELSE [type |-> "doc", text |-> text]

----------------------------------------------------------------------------
(* The Jira server as seen through JiraClient *)

ServerOffsets == {7200}

\* the "started" string the server returns for a stored instant
Served(instant) ==
    LET off == CHOOSE o \in ServerOffsets : TRUE
    IN  [wall |-> instant + off, off |-> off, fmt |-> "jira"]

\* one element of the "worklogs" array of GET /issue/{key}/worklog (API v3:
\* the comment comes back as an ADF document, never as a plain string)
\* (a stored entry without "secs" comes back without timeSpentSeconds)
WorklogJson(e) ==
    LET cm == IF e.comment = "" THEN [kind |-> "absent", text |-> ""]
              ELSE [kind |-> "adf", text |-> e.comment]
    IN  IF "secs" \in DOMAIN e
        THEN [id |-> e.id, author |-> e.author, started |-> Served(e.started),
              timeSpentSeconds |-> e.secs, comment |-> cm]
        ELSE [id |-> e.id, author |-> e.author, started |-> Served(e.started),
              comment |-> cm]

get_issue_worklogs(srv, issue_key) ==
    LET OfIssue(e) == e.issueKey = issue_key
        logs == SelectSeq(srv, OfIssue)
    IN  [i \in 1..Len(logs) |-> WorklogJson(logs[i])]

\* first ten characters of a UTC ISO string: its calendar date
DateOf(s) == s.wall \div Day

\* POST /search with the worklogAuthor / worklogDate JQL of cached_worklogs_week
WorklogIssues(srv, account_id, start_utc_iso, end_utc_iso) ==
    LET Match(k) == \E i \in 1..Len(srv) :
                        /\ srv[i].issueKey = k
                        /\ srv[i].author = account_id
                        /\ srv[i].started \div Day >= DateOf(start_utc_iso)
                        /\ srv[i].started \div Day <= DateOf(end_utc_iso)
    IN  SelectSeq(IssueOrder, Match)

\* the comment expression of line 295
BlockComment(c) == IF c.kind = "str" THEN c.text ELSE ""

WorklogEvent(key, wl) ==
    LET started == parse_iso(wl.started)
        secs    == IF "timeSpentSeconds" \in DOMAIN wl THEN wl.timeSpentSeconds ELSE 0
        end_dt  == plus(started, secs)
    IN  [id |-> <<key, "::", wl.id>>,
         start |-> isoformat(astimezone_utc(started)),
         end |-> isoformat(astimezone_utc(end_dt)),
         issueKey |-> key, worklogId |-> wl.id,
         timeSpentSeconds |-> secs,
         comment |-> BlockComment(wl.comment),
         editable |-> FALSE]

\* mutant: the range test compares calendar dates, as the JQL does
IssueEvents_byDate(srv, key, account_id, start_utc_iso, end_utc_iso) ==
    LET Keep(wl) ==
            /\ wl.author = account_id
            /\ ~ ( \/ Instant(parse_iso(wl.started)) \div Day < DateOf(start_utc_iso)
                   \/ Instant(parse_iso(wl.started)) \div Day > DateOf(end_utc_iso) )
        kept == SelectSeq(get_issue_worklogs(srv, key), Keep)
    IN  [i \in 1..Len(kept) |-> WorklogEvent(key, kept[i])]

IssueEvents(srv, key, account_id, start_utc_iso, end_utc_iso) ==
    LET Keep(wl) ==
            /\ wl.author = account_id
            /\ ~ ( \/ Instant(parse_iso(wl.started)) < Instant(parse_iso(start_utc_iso))
                   \/ Instant(parse_iso(wl.started)) > Instant(parse_iso(end_utc_iso)) )
        kept == SelectSeq(get_issue_worklogs(srv, key), Keep)
    IN  [i \in 1..Len(kept) |-> WorklogEvent(key, kept[i])]

RECURSIVE EventsOfIssues(_, _, _, _, _)
EventsOfIssues(srv, issues, account_id, start_utc_iso, end_utc_iso) ==
    IF issues = <<>> THEN <<>>
    ELSE IssueEvents(srv, Head(issues), account_id, start_utc_iso, end_utc_iso)
         \o EventsOfIssues(srv, Tail(issues), account_id, start_utc_iso, end_utc_iso)

cached_worklogs_week(srv, account_id, start_utc_iso, end_utc_iso) ==
    EventsOfIssues(srv, WorklogIssues(srv, account_id, start_utc_iso, end_utc_iso),
                   account_id, start_utc_iso, end_utc_iso)

\* lines 500-512
DraftBlock(d) ==
    [id |-> d.id, start |-> d.start, end |-> d.end, editable |-> TRUE]

\* mutant: the draft block is appended on top of the one of the previous run
WithDraft_again(base, d) ==
    IF d # None THEN base \o <<DraftBlock(d), DraftBlock(d)>> ELSE base

WithDraft(base, d) == IF d # None THEN base \o <<DraftBlock(d)>> ELSE base

----------------------------------------------------------------------------
(* Calendar event handlers (they only touch the draft) *)

_mk_draft_from_click(start_iso) ==
    LET start_dt == parse_iso(start_iso)
        end_dt   == plus(start_dt, Hour)
    IN  [id |-> <<"__DRAFT__">>,
         start |-> isoformat(astimezone_utc(start_dt)),
         end |-> isoformat(astimezone_utc(end_dt)),
         mode |-> "new", issueKey |-> "None", worklogId |-> "None",
         comment |-> ""]

\* "::" in ev_id
HasSep(ev_id) == \E i \in 1..Len(ev_id) : ev_id[i] = "::"

\* str(ev.get("id","")).startswith("__DRAFT__"); ids are sequences of tokens,
\* "__DRAFT_EDIT__" is one token and does not begin with "__DRAFT__"
StartsWithDraft(ev_id) == Len(ev_id) >= 1 /\ ev_id[1] = "__DRAFT__"

\* mutant: a click on another block keeps the target of the open edit draft
_mk_draft_from_existing_keepsTarget(d, ev) ==
    IF ~HasSep(ev.id) THEN d
    ELSE [id |-> <<"__DRAFT_EDIT__">>,
          start |-> ev.start, end |-> ev.end,
          mode |-> "edit",
          issueKey |-> IF d # None /\ d.mode = "edit" THEN d.issueKey ELSE ev.id[1],
          worklogId |-> IF d # None /\ d.mode = "edit" THEN d.worklogId ELSE ev.id[3],
          comment |-> ev.comment]

_mk_draft_from_existing(d, ev) ==
    IF ~HasSep(ev.id) THEN d
    ELSE [id |-> <<"__DRAFT_EDIT__">>,
          start |-> ev.start, end |-> ev.end,
          mode |-> "edit", issueKey |-> ev.id[1], worklogId |-> ev.id[3],
          comment |-> ev.comment]

_update_draft_time(d, new_start_iso, new_end_iso) ==
    IF d = None THEN d
    ELSE [d EXCEPT !.start = utc_iso(new_start_iso), !.end = utc_iso(new_end_iso)]

\* mutant: the new payload is not remembered
_debounce_forgets(db, event_key, payload) ==
    IF db[event_key] = payload
    THEN [fresh |-> FALSE, deb |-> db]
    ELSE [fresh |-> TRUE, deb |-> db]

\* returns whether the payload is new, and the updated session state
_debounce(db, event_key, payload) ==
    IF db[event_key] = payload
    THEN [fresh |-> FALSE, deb |-> db]
    ELSE [fresh |-> TRUE, deb |-> [db EXCEPT ![event_key] = payload]]

\* lines 644-668, applied to the component value cs
CalendarHandlers(d, db, cs) ==
    IF cs = None THEN [draft |-> d, deb |-> db]
    ELSE IF cs.callback = "dateClick" THEN
        LET r == _debounce(db, "dateClick", cs.dateClick)
        IN  [draft |-> IF r.fresh THEN _mk_draft_from_click(cs.dateClick) ELSE d,
             deb |-> r.deb]
    ELSE IF cs.callback = "eventClick" THEN
        LET r == _debounce(db, "eventClick", cs.event)
        IN  [draft |-> IF r.fresh /\ ~StartsWithDraft(cs.event.id)
                       THEN _mk_draft_from_existing(d, cs.event) ELSE d,
             deb |-> r.deb]
    ELSE
        LET r == _debounce(db, "eventChange", cs.event)
        IN  [draft |-> IF r.fresh /\ StartsWithDraft(cs.event.id)
                       THEN _update_draft_time(d, cs.event.start, cs.event.end) ELSE d,
             deb |-> r.deb]

\* the event object the calendar component reports for a displayed block
EventOf(b) ==
    [id |-> b.id, start |-> b.start, end |-> b.end,
     comment |-> IF b.editable THEN "" ELSE b.comment]

\* mutant: the one-minute floor is missing
dur_secs_nofloor(d) ==
    Instant(parse_iso(d.end)) - Instant(parse_iso(d.start))

\* lines 682-686
dur_secs(d) ==
    LET secs == Instant(parse_iso(d.end)) - Instant(parse_iso(d.start))
    IN  IF secs < MinDur THEN MinDur ELSE secs

----------------------------------------------------------------------------
(* Write operations of JiraClient: the HTTP requests they send, in order *)

add_worklog(issue_key, started_iso, time_spent_seconds, comment) ==
    LET cm == adf_comment(comment)
    IN  << [op |-> "add", issueKey |-> issue_key, worklogId |-> "None",
            started |-> jira_datetime_from_iso(started_iso),
            timeSpentSeconds |-> time_spent_seconds,
            comment |-> IF cm # None THEN cm.text ELSE "",
            fields |-> {"started", "timeSpentSeconds"}
                       \cup (IF cm # None THEN {"comment"} ELSE {}),
            notifyUsers |-> "false"] >>

\* mutant: the start and the duration are sent as two requests
update_worklog_split(issue_key, worklog_id, started_iso, time_spent_seconds, comment) ==
    LET cm == IF comment # None THEN adf_comment(comment.some) ELSE None
    IN  << [op |-> "update", issueKey |-> issue_key, worklogId |-> worklog_id,
            started |-> jira_datetime_from_iso(started_iso.some),
            timeSpentSeconds |-> 0, comment |-> "",
            fields |-> {"started"}, notifyUsers |-> "false"],
           [op |-> "update", issueKey |-> issue_key, worklogId |-> worklog_id,
            started |-> [wall |-> 0, off |-> 0, fmt |-> "absent"],
            timeSpentSeconds |-> time_spent_seconds.some,
            comment |-> IF cm # None THEN cm.text ELSE "",
            fields |-> {"timeSpentSeconds"}
                       \cup (IF cm # None THEN {"comment"} ELSE {}),
            notifyUsers |-> "false"] >>

\* an optional parameter is None or Some(value)
update_worklog(issue_key, worklog_id, started_iso, time_spent_seconds, comment) ==
    LET cm == IF comment # None THEN adf_comment(comment.some) ELSE None
    IN  << [op |-> "update", issueKey |-> issue_key, worklogId |-> worklog_id,
            started |-> IF started_iso # None
                        THEN jira_datetime_from_iso(started_iso.some)
                        ELSE [wall |-> 0, off |-> 0, fmt |-> "absent"],
            timeSpentSeconds |-> IF time_spent_seconds # None
                                 THEN time_spent_seconds.some ELSE 0,
            comment |-> IF cm # None THEN cm.text ELSE "",
            fields |-> (IF started_iso # None THEN {"started"} ELSE {})
                       \cup (IF time_spent_seconds # None
                             THEN {"timeSpentSeconds"} ELSE {})
                       \cup (IF cm # None THEN {"comment"} ELSE {}),
            notifyUsers |-> "false"] >>

\* what the server stores when it accepts a request
ApplyRequest(srv, req) ==
    IF req.op = "add"
    THEN Append(srv, [issueKey |-> req.issueKey, id |-> IdNames[Len(srv) + 1],
                      author |-> Me, started |-> Instant(req.started),
                      secs |-> req.timeSpentSeconds, comment |-> req.comment])
    ELSE [i \in 1..Len(srv) |->
            IF srv[i].issueKey = req.issueKey /\ srv[i].id = req.worklogId
            THEN [srv[i] EXCEPT
                    !.started = IF "started" \in req.fields
                                THEN Instant(req.started) ELSE @,
                    !.secs = IF "timeSpentSeconds" \in req.fields
                             THEN req.timeSpentSeconds ELSE @,
                    !.comment = IF "comment" \in req.fields THEN req.comment ELSE @]
            ELSE srv[i]]

RECURSIVE ApplyAll(_, _)
ApplyAll(srv, reqs) ==
    IF reqs = <<>> THEN srv ELSE ApplyAll(ApplyRequest(srv, Head(reqs)), Tail(reqs))

Logged(reqs, n) ==
    [i \in 1..Len(reqs) |->
        [op |-> reqs[i].op, issueKey |-> reqs[i].issueKey,
         worklogId |-> reqs[i].worklogId, started |-> reqs[i].started,
         timeSpentSeconds |-> reqs[i].timeSpentSeconds,
         comment |-> reqs[i].comment, fields |-> reqs[i].fields,
         notifyUsers |-> reqs[i].notifyUsers,
         status |-> IF i <= n THEN "ok" ELSE "failed"]]

\* mutant: Save sends end - start as it is
SaveRequests_rawDuration(d, selected_issue_key, comment) ==
    LET raw == Instant(parse_iso(d.end)) - Instant(parse_iso(d.start))
    IN  IF d.mode = "new"
        THEN add_worklog(selected_issue_key, utc_iso(d.start), raw, comment)
        ELSE update_worklog(d.issueKey, d.worklogId, Some(utc_iso(d.start)),
                            Some(raw), IF comment # "" THEN Some(comment) ELSE None)

\* lines 789-807: the requests Save sends for draft d and the form values
SaveRequests(d, selected_issue_key, comment) ==
    IF d.mode = "new"
    THEN add_worklog(selected_issue_key, utc_iso(d.start), dur_secs(d), comment)
    ELSE update_worklog(d.issueKey, d.worklogId, Some(utc_iso(d.start)),
                        Some(dur_secs(d)),
                        IF comment # "" THEN Some(comment) ELSE None)

----------------------------------------------------------------------------
(* Inputs *)

ClickDates == { Str(10800, 7200) }

\* a block dragged to half a minute, and one dragged to end before its start
DragSpans ==
    { [start |-> Str(14400, 7200), end |-> Str(7230, 0)],
      [start |-> Str(14400, 7200), end |-> Str(7100, 0)] }

InitRemote ==
    << [issueKey |-> "ABC-1", id |-> "w1", author |-> "u1", started |-> 3600,
        secs |-> 1800, comment |-> "done"] >>

WeekRange(w) == [start |-> Str(w * Week, 0), end |-> Str((w + 1) * Week, 0)]

----------------------------------------------------------------------------
(* State machine *)

\* the session before the first interaction, UTC selected, week 0 visible
InitUi ==
    /\ draft = None
    /\ deb = [dateClick |-> Unset, eventClick |-> Unset, eventChange |-> Unset]
    /\ cal_state = None
    /\ events = <<>>
    /\ cache = None
    /\ visible = WeekRange(0)
    /\ account = Me
    /\ writes = 0
    /\ calls = <<>>
    /\ tz = "UTC"

InitSession ==
    /\ InitUi
    /\ remote = InitRemote

Init ==
    /\ InitSession
    /\ pager = None
    /\ resolver = None
    /\ conv = None
    /\ lookup = None
    /\ loads = None

\* lines 488-512 with the st.cache_data wrapper of cached_worklogs_week:
\* c is the cache, d the draft, ok whether the remote reads succeed
Project(c, d, srv, acct, vis, ok) ==
    LET key == <<acct, vis.start, vis.end>>
        hit == c # None /\ c.key = key
        val == IF hit THEN c.val
               ELSE IF ok THEN cached_worklogs_week(srv, acct, vis.start, vis.end)
               ELSE <<>>
    IN  [events |-> WithDraft(val, d),
         cache |-> IF hit \/ ~ok THEN c ELSE [key |-> key, val |-> val]]

\* a run that presses no button: projection, then the calendar handlers on the
\* component value cs
PlainRun(cs, ok) ==
    LET p == Project(cache, draft, remote, account, visible, ok)
        h == CalendarHandlers(draft, deb, cs)
    IN  /\ cal_state' = cs
        /\ events' = p.events
        /\ cache' = p.cache
        /\ draft' = h.draft
        /\ deb' = h.deb
        /\ calls' = <<>>
        /\ UNCHANGED <<remote, visible, account, writes, tz, pager, resolver, conv, lookup, loads>>

SlotClicked(date, ok) ==
    PlainRun([callback |-> "dateClick", dateClick |-> date], ok)

BlockClicked(i, ok) ==
    PlainRun([callback |-> "eventClick", event |-> EventOf(events[i])], ok)

BlockChanged(i, span, ok) ==
    PlainRun([callback |-> "eventChange",
              event |-> [EventOf(events[i]) EXCEPT !.start = span.start,
                                                   !.end = span.end]], ok)

\* any other widget (epic search, epic select, timezone select): a plain rerun
OtherWidget(ok) == PlainRun(cal_state, ok)

\* user selectbox: the on_change callback runs first, then the script
_on_user_change(person, ok) ==
    /\ person # account
    /\ LET p == Project(None, None, remote, person, visible, ok)
           h == CalendarHandlers(None, deb, cal_state)
       IN  /\ events' = p.events
           /\ cache' = p.cache
           /\ draft' = h.draft
           /\ deb' = h.deb
    /\ account' = person
    /\ calls' = <<>>
    /\ UNCHANGED <<cal_state, remote, visible, writes, tz, pager, resolver, conv, lookup, loads>>

\* ttl of st.cache_data elapses
CacheExpire ==
    /\ cache # None
    /\ cache' = None
    /\ UNCHANGED <<draft, deb, cal_state, events, remote, visible, account, writes, calls, tz, pager, resolver, conv, lookup, loads>>

\* Prev / Next buttons: shift, clear the cache, st.rerun(); the calendar is
\* remounted under the new week's key, so its value starts empty
_shift_visible(days, ok) ==
    /\ Instant(visible.start) + days * Day >= -Day
    /\ Instant(visible.start) + days * Day <= MaxWeek * Week
    /\ LET vis == [start |-> isoformat(astimezone_utc(plus(parse_iso(visible.start),
                                                            days * Day))),
                   end |-> isoformat(astimezone_utc(plus(parse_iso(visible.end),
                                                          days * Day)))]
           p == Project(None, draft, remote, account, vis, ok)
           h == CalendarHandlers(draft, deb, None)
       IN  /\ visible' = vis
           /\ events' = p.events
           /\ cache' = p.cache
           /\ draft' = h.draft
           /\ deb' = h.deb
    /\ cal_state' = None
    /\ calls' = <<>>
    /\ UNCHANGED <<remote, account, writes, tz, pager, resolver, conv, lookup, loads>>

\* the draft the editor works on (line 674): the one the handlers leave
Handled == CalendarHandlers(draft, deb, cal_state)

\* mutant: Cancel reruns without dropping the draft
Cancel_keepsDraft(ok1, ok2) ==
    /\ draft # None
    /\ LET p1 == Project(cache, draft, remote, account, visible, ok1)
       IN  /\ events' = p1.events
           /\ cache' = p1.cache
    /\ draft' = Handled.draft
    /\ deb' = Handled.deb
    /\ calls' = <<>>
    /\ UNCHANGED <<cal_state, remote, visible, account, writes, tz, pager, resolver, conv, lookup, loads>>

\* Cancel button: the draft is dropped and the script reruns
Cancel(ok1, ok2) ==
    /\ draft # None
    /\ LET p1 == Project(cache, draft, remote, account, visible, ok1)
           p2 == Project(p1.cache, None, remote, account, visible, ok2)
           h2 == CalendarHandlers(None, Handled.deb, cal_state)
       IN  IF Handled.draft # None
           THEN /\ events' = p2.events
                /\ cache' = p2.cache
                /\ draft' = h2.draft
                /\ deb' = h2.deb
           ELSE /\ events' = p1.events
                /\ cache' = p1.cache
                /\ draft' = Handled.draft
                /\ deb' = Handled.deb
    /\ calls' = <<>>
    /\ UNCHANGED <<cal_state, remote, visible, account, writes, tz, pager, resolver, conv, lookup, loads>>

\* mutant: the validation error also clears the worklogs cache
SaveInvalid_clearsCache(ok) ==
    /\ draft # None
    /\ Handled.draft.mode = "new"
    /\ events' = Project(cache, draft, remote, account, visible, ok).events
    /\ cache' = None
    /\ draft' = Handled.draft
    /\ deb' = Handled.deb
    /\ calls' = <<>>
    /\ UNCHANGED <<cal_state, remote, visible, account, writes, tz, pager, resolver, conv, lookup, loads>>

\* Save on a new draft with no issue key: st.stop() before any request
SaveInvalid(ok) ==
    /\ draft # None
    /\ Handled.draft.mode = "new"
    /\ PlainRun(cal_state, ok)

CanSave(selected_issue_key) ==
    /\ draft # None
    /\ Handled.draft # None
    /\ ~(Handled.draft.mode = "new" /\ selected_issue_key = "")
    \* the issue field of an edit draft is disabled (line 771)
    /\ Handled.draft.mode = "edit" => selected_issue_key = ""

\* mutant: cached_worklogs_week.clear() is missing after a successful Save
SaveOk_keepsCache(selected_issue_key, comment, ok2) ==
    /\ CanSave(selected_issue_key)
    /\ LET reqs == SaveRequests(Handled.draft, selected_issue_key, comment)
           srv  == ApplyAll(remote, reqs)
           p1   == Project(cache, draft, remote, account, visible, ok2)
           p2   == Project(p1.cache, None, srv, account, visible, ok2)
           h2   == CalendarHandlers(None, Handled.deb, cal_state)
       IN  /\ writes + Len(reqs) <= MaxWrites
           /\ writes' = writes + Len(reqs)
           /\ calls' = Logged(reqs, Len(reqs))
           /\ remote' = srv
           /\ events' = p2.events
           /\ cache' = p2.cache
           /\ draft' = h2.draft
           /\ deb' = h2.deb
    /\ UNCHANGED <<cal_state, visible, account, tz, pager, resolver, conv, lookup, loads>>

\* mutant: a successful Save also clears the memory of the debounce
SaveOk_forgetsClick(selected_issue_key, comment, ok2) ==
    /\ CanSave(selected_issue_key)
    /\ LET reqs == SaveRequests(Handled.draft, selected_issue_key, comment)
           srv  == ApplyAll(remote, reqs)
           p2   == Project(None, None, srv, account, visible, ok2)
           h2   == CalendarHandlers(None, [dateClick |-> Unset, eventClick |-> Unset,
                                           eventChange |-> Unset], cal_state)
       IN  /\ writes + Len(reqs) <= MaxWrites
           /\ writes' = writes + Len(reqs)
           /\ calls' = Logged(reqs, Len(reqs))
           /\ remote' = srv
           /\ events' = p2.events
           /\ cache' = p2.cache
           /\ draft' = h2.draft
           /\ deb' = h2.deb
    /\ UNCHANGED <<cal_state, visible, account, tz, pager, resolver, conv, lookup, loads>>

\* Save, every request accepted: draft dropped, cache cleared, st.rerun()
SaveOk(selected_issue_key, comment, ok2) ==
    /\ CanSave(selected_issue_key)
    /\ LET reqs == SaveRequests(Handled.draft, selected_issue_key, comment)
           srv  == ApplyAll(remote, reqs)
           p2   == Project(None, None, srv, account, visible, ok2)
           h2   == CalendarHandlers(None, Handled.deb, cal_state)
       IN  /\ writes + Len(reqs) <= MaxWrites
           /\ writes' = writes + Len(reqs)
           /\ calls' = Logged(reqs, Len(reqs))
           /\ remote' = srv
           /\ events' = p2.events
           /\ cache' = p2.cache
           /\ draft' = h2.draft
           /\ deb' = h2.deb
    /\ UNCHANGED <<cal_state, visible, account, tz, pager, resolver, conv, lookup, loads>>

\* mutant: the clean-up of the success path also runs when the request raised
SaveFailed_cleans(selected_issue_key, comment, ok1) ==
    /\ CanSave(selected_issue_key)
    /\ LET reqs == SaveRequests(Handled.draft, selected_issue_key, comment)
           p2   == Project(None, None, remote, account, visible, ok1)
       IN  /\ calls' = Logged(SubSeq(reqs, 1, 1), 0)
           /\ events' = p2.events
           /\ cache' = p2.cache
    /\ draft' = None
    /\ deb' = Handled.deb
    /\ UNCHANGED <<cal_state, remote, visible, account, writes, tz, pager, resolver, conv, lookup, loads>>

\* Save, the n-th request raises (HTTP error or timeout) after the earlier ones
\* were accepted: the exception is caught and shown, nothing else happens
SaveFailed(selected_issue_key, comment, ok1) ==
    /\ CanSave(selected_issue_key)
    /\ LET reqs == SaveRequests(Handled.draft, selected_issue_key, comment)
           p1   == Project(cache, draft, remote, account, visible, ok1)
       IN  /\ \E n \in 1..Len(reqs) :
                /\ writes + n - 1 <= MaxWrites
                /\ writes' = writes + n - 1
                /\ calls' = Logged(SubSeq(reqs, 1, n), n - 1)
                /\ remote' = ApplyAll(remote, SubSeq(reqs, 1, n - 1))
           /\ events' = p1.events
           /\ cache' = p1.cache
    /\ draft' = Handled.draft
    /\ deb' = Handled.deb
    /\ UNCHANGED <<cal_state, visible, account, tz, pager, resolver, conv, lookup, loads>>

Next ==
    \/ \E d \in ClickDates, ok \in BOOLEAN : SlotClicked(d, ok)
    \/ \E i \in 1..Len(events), ok \in BOOLEAN : BlockClicked(i, ok)
    \/ \E i \in 1..Len(events), sp \in DragSpans, ok \in BOOLEAN : BlockChanged(i, sp, ok)
    \/ \E ok \in BOOLEAN : OtherWidget(ok)
    \/ \E p \in Persons, ok \in BOOLEAN : _on_user_change(p, ok)
    \/ CacheExpire
    \/ \E days \in {-7, 7}, ok \in BOOLEAN : _shift_visible(days, ok)
    \/ \E ok1 \in BOOLEAN, ok2 \in BOOLEAN : Cancel(ok1, ok2)
    \/ \E ok \in BOOLEAN : SaveInvalid(ok)
    \/ \E k \in SaveKeys, c \in Comments, ok \in BOOLEAN : SaveOk(k, c, ok)
    \/ \E k \in SaveKeys, c \in Comments, ok \in BOOLEAN : SaveFailed(k, c, ok)

Spec == Init /\ [][Next]_vars

----------------------------------------------------------------------------
(* JiraClient.get_issue_worklogs, lines 132-144: the paging loop, one      *)
(* iteration per step, against a server that holds n worklogs of the issue *)
(* (numbered 1..n in server order), serves at most `size` of them from the *)
(* requested offset, reports `total`, and reports maxResults or not.       *)

Min(a, b) == IF a <= b THEN a ELSE b

Servers ==
    [n : 0..MaxLogs, total : 0..(MaxLogs + 1), size : 1..MaxLogs, hasMax : BOOLEAN]

\* the JSON body of GET /issue/{key}/worklog?startAt=start_at
Reply(srv, start_at) ==
    LET last == Min(start_at + srv.size, srv.n)
        page == [i \in 1..Max(last - start_at, 0) |-> start_at + i]
    IN  IF srv.hasMax
        THEN [worklogs |-> page, total |-> srv.total, maxResults |-> srv.size]
        ELSE [worklogs |-> page, total |-> srv.total]

\* mutant: the offset is not advanced
NextOffset_same(start_at, data) == start_at

\* line 143
NextOffset(start_at, data) ==
    start_at + (IF "maxResults" \in DOMAIN data THEN data.maxResults
                ELSE Len(data.worklogs))

LoopInit ==
    /\ InitSession
    /\ resolver = None
    /\ conv = None
    /\ lookup = None
    /\ loads = None
    /\ \E srv \in Servers :
            pager = [srv |-> srv, start_at |-> 0, all_logs |-> <<>>,
                     tick |-> 0, done |-> FALSE]

\* one iteration of the while loop (lines 137-143); tick is the parity of the
\* number of requests sent
FetchPage ==
    /\ pager # None
    /\ ~pager.done
    /\ pager.start_at <= MaxOffset
    /\ LET data == Reply(pager.srv, pager.start_at)
           logs == pager.all_logs \o data.worklogs
       IN  pager' = [pager EXCEPT
                        !.all_logs = logs,
                        !.tick = 1 - @,
                        !.done = Len(logs) >= data.total,
                        !.start_at = IF Len(logs) >= data.total THEN @
                                     ELSE NextOffset(@, data)]
    /\ UNCHANGED <<session, resolver, conv, lookup, loads>>

LoopNext == FetchPage

\* the loop runs on until it breaks
LoopSpec == LoopInit /\ [][LoopNext]_vars /\ WF_vars(LoopNext)

----------------------------------------------------------------------------
(* The projection alone, over the worklogs a server may hold: entries of   *)
(* either person, starting just before, at and just after the bounds of    *)
(* week 0, with a duration below the floor, above it, or none.             *)

StartsAround == {-1, 0, Week, Week + 1}

WithSecs ==
    [issueKey : Issues, author : Persons, started : StartsAround, secs : {30, 1800},
     comment : {""}]

WithoutSecs ==
    [issueKey : Issues, author : Persons, started : StartsAround, comment : {""}]

\* entry e stored under worklog id wid
Stored(e, wid) ==
    IF "secs" \in DOMAIN e
    THEN [issueKey |-> e.issueKey, id |-> wid, author |-> e.author,
          started |-> e.started, secs |-> e.secs, comment |-> e.comment]
    ELSE [issueKey |-> e.issueKey, id |-> wid, author |-> e.author,
          started |-> e.started, comment |-> e.comment]

Remotes ==
    {<<>>}
    \cup { <<Stored(e, "w1")>> : e \in WithSecs \cup WithoutSecs }
    \cup { <<Stored(e1, "w1"), Stored(e2, "w2")>> :
                e1 \in WithSecs \cup WithoutSecs, e2 \in WithSecs }

ProjInit ==
    /\ InitUi
    /\ remote \in Remotes
    /\ pager = None
    /\ resolver = None
    /\ conv = None
    /\ lookup = None
    /\ loads = None

ProjNext ==
    \/ \E ok \in BOOLEAN : OtherWidget(ok)
    \/ \E p \in Persons, ok \in BOOLEAN : _on_user_change(p, ok)
    \/ \E days \in {-7, 7}, ok \in BOOLEAN : _shift_visible(days, ok)
    \/ CacheExpire

ProjSpec == ProjInit /\ [][ProjNext]_vars

----------------------------------------------------------------------------
(* JiraClient.epic_link_jql_name, lines 207-228, over the field catalogs    *)
(* GET /field may return.  Strings are token sequences: a custom field id  *)
(* is <<"customfield_", digits>>.  A catalog entry has schema.custom       *)
(* ("absent" when there is no schema or no custom key), an id (<<>> when   *)
(* absent or empty) and a name (None when absent).                         *)

EpicLinkSchema == "com.pyxis.greenhopper.jira:gh-epic-link"

FieldIds == { <<>>, <<"epiclink">>, <<"customfield_", "10014">>, <<"customfield_">> }

FieldEntries ==
    [custom : {"absent", "other", EpicLinkSchema}, id : FieldIds,
     name : {None, Some(<<"Epik">>)}]

RECURSIVE SeqsUpTo(_, _)
SeqsUpTo(S, n) ==
    IF n = 0 THEN {<<>>}
    ELSE LET shorter == SeqsUpTo(S, n - 1)
         IN  shorter \cup { Append(q, x) : q \in shorter, x \in S }

Catalogs == SeqsUpTo(FieldEntries, MaxFields)

\* fid.startswith("customfield_")
IsCustomFieldId(fid) == Len(fid) >= 1 /\ fid[1] = "customfield_"

\* mutant: the display name is returned whatever the id
epic_link_jql_name_byName(fields, fails) ==
    IF fails THEN <<"Epic Link">>
    ELSE LET marked == { i \in 1..Len(fields) : fields[i].custom = EpicLinkSchema }
         IN  IF marked = {} THEN <<"Epic Link">>
             ELSE LET f == fields[CHOOSE i \in marked : \A j \in marked : i <= j]
                  IN  IF f.name # None THEN f.name.some ELSE <<"Epic Link">>

RECURSIVE ScanFields(_)
\* lines 214-226: the for loop, from the first entry on
ScanFields(fields) ==
    IF fields = <<>> THEN <<"Epic Link">>
    ELSE LET f == Head(fields)
         IN  IF f.custom = EpicLinkSchema
             THEN IF f.id # <<>> /\ IsCustomFieldId(f.id)
                  THEN <<"cf[">> \o Tail(f.id) \o <<"]">>
                  ELSE IF f.name # None THEN f.name.some ELSE <<"Epic Link">>
             ELSE ScanFields(Tail(fields))

\* fails: list_fields raises (HTTP error, timeout, unreadable body)
epic_link_jql_name(fields, fails) ==
    IF fails THEN <<"Epic Link">> ELSE ScanFields(fields)

ResolverInit ==
    /\ InitSession
    /\ pager = None
    /\ conv = None
    /\ lookup = None
    /\ loads = None
    /\ \E fields \in Catalogs, fails \in BOOLEAN :
            resolver = [fields |-> fields, fails |-> fails, returned |-> FALSE,
                        result |-> <<>>]

ResolveToken ==
    /\ resolver # None
    /\ ~resolver.returned
    /\ resolver' = [resolver EXCEPT
                        !.returned = TRUE,
                        !.result = epic_link_jql_name(resolver.fields, resolver.fails)]
    /\ UNCHANGED <<session, pager, conv, lookup, loads>>

ResolverNext == ResolveToken

ResolverSpec == ResolverInit /\ [][ResolverNext]_vars

----------------------------------------------------------------------------
(* Navigation and timezone selection.  Instant 0 is a Monday 00:00 UTC.    *)
(* A timezone has the UTC offset datetime.now(tz) and astimezone(tz) use   *)
(* (daylight saving is left out) and the offset of the bare pytz tzinfo    *)
(* object that datetime.replace(tzinfo=tz) attaches: its first, local mean *)
(* time entry (+02:02 for Europe/Kyiv).                                    *)

TzNames == {"Europe/Kyiv", "UTC"}

UtcOffset(name) == IF name = "Europe/Kyiv" THEN 2 * Hour ELSE 0

LmtOffset(name) == IF name = "Europe/Kyiv" THEN 2 * Hour + 120 ELSE 0

\* the clock when Today is pressed or the session starts: Thursday 10:00 UTC
Now == 3 * Day + 10 * Hour

\* dates the date input may be set to (days since the Monday of instant 0)
JumpDates == {2, 7}

\* datetime.now(tz)
now_local(name) == [wall |-> Now + UtcOffset(name), off |-> UtcOffset(name)]

\* (dt - timedelta(days=dt.weekday())).replace(hour=0, minute=0, second=0, microsecond=0)
start_of_week(dt) == [wall |-> (dt.wall \div Week) * Week, off |-> dt.off]

\* lines 470-473, 555-558, 573-576
WeekOf(dt) ==
    [start |-> isoformat(astimezone_utc(start_of_week(dt))),
     end |-> isoformat(astimezone_utc(plus(start_of_week(dt), 7 * Day)))]

\* line 485: strftime("%Y-%W") of the stored UTC string
week_key(s) == parse_iso(s).wall \div Week

\* the script's run after the visible range became vis with an empty cache
Navigated(vis, ok) ==
    LET cs == IF week_key(vis.start) = week_key(visible.start) THEN cal_state ELSE None
        p  == Project(None, draft, remote, account, vis, ok)
        h  == CalendarHandlers(draft, deb, cs)
    IN  /\ visible' = vis
        /\ cal_state' = cs
        /\ events' = p.events
        /\ cache' = p.cache
        /\ draft' = h.draft
        /\ deb' = h.deb
        /\ calls' = <<>>
        /\ UNCHANGED <<remote, account, writes, tz, pager, resolver, conv, lookup, loads>>

\* Today button, lines 553-560
Today(ok) == Navigated(WeekOf(now_local(tz)), ok)

\* date input on_change, lines 567-577
_jump_to_selected_date(jump_date, ok) ==
    LET jdt_local == [wall |-> jump_date * Day, off |-> LmtOffset(tz)]
    IN  Navigated(WeekOf(jdt_local), ok)

\* timezone select box, lines 459-465: a rerun under the new timezone
TzSelected(name, ok) ==
    /\ name # tz
    /\ tz' = name
    /\ LET p == Project(cache, draft, remote, account, visible, ok)
           h == CalendarHandlers(draft, deb, cal_state)
       IN  /\ events' = p.events
           /\ cache' = p.cache
           /\ draft' = h.draft
           /\ deb' = h.deb
    /\ calls' = <<>>
    /\ UNCHANGED <<cal_state, remote, visible, account, writes, pager, resolver, conv, lookup, loads>>

\* first run of a session: Europe/Kyiv preselected, the current week visible
NavInit ==
    /\ draft = None
    /\ deb = [dateClick |-> Unset, eventClick |-> Unset, eventChange |-> Unset]
    /\ cal_state = None
    /\ events = <<>>
    /\ cache = None
    /\ remote = InitRemote
    /\ tz = "Europe/Kyiv"
    /\ visible = WeekOf(now_local("Europe/Kyiv"))
    /\ account = Me
    /\ writes = 0
    /\ calls = <<>>
    /\ pager = None
    /\ resolver = None
    /\ conv = None
    /\ lookup = None
    /\ loads = None

NavNext ==
    \/ \E days \in {-7, 7}, ok \in BOOLEAN : _shift_visible(days, ok)
    \/ \E ok \in BOOLEAN : Today(ok)
    \/ \E d \in JumpDates, ok \in BOOLEAN : _jump_to_selected_date(d, ok)
    \/ \E name \in TzNames, ok \in BOOLEAN : TzSelected(name, ok)
    \/ \E d \in ClickDates, ok \in BOOLEAN : SlotClicked(d, ok)
    \/ \E i \in 1..Len(events), ok \in BOOLEAN : BlockClicked(i, ok)
    \/ \E i \in 1..Len(events), sp \in DragSpans, ok \in BOOLEAN : BlockChanged(i, sp, ok)
    \/ \E p \in Persons, ok \in BOOLEAN : _on_user_change(p, ok)
    \/ \E ok1 \in BOOLEAN, ok2 \in BOOLEAN : Cancel(ok1, ok2)
    \/ \E k \in SaveKeys, c \in Comments, ok \in BOOLEAN : SaveOk(k, c, ok)

NavSpec == NavInit /\ [][NavNext]_vars

----------------------------------------------------------------------------
(* jira_datetime_from_iso, lines 61-64, over the date-time strings it may  *)
(* be given: the wire format (fmt "jira": milliseconds .000, offset        *)
(* written +HHMM), isoformat output (fmt "iso": offset written +HH:MM) and *)
(* the Z form (fmt "z"), with offsets west of, at and east of UTC.         *)

WireWalls == {0, 1, Hour - 1, Hour, Day - 1, Day, Week - 1}

WireOffsets == {-5 * Hour, 0, 2 * Hour, 5 * Hour + 1800}

WireInputs ==
    [wall : WireWalls, off : WireOffsets, fmt : {"jira", "iso"}]
    \cup [wall : WireWalls, off : {0}, fmt : {"z"}]

\* the UTC offset as the string spells it: strftime("%z") writes +HHMM,
\* isoformat() writes +HH:MM, the Z form writes the letter
OffsetText(s) ==
    LET a == IF s.off < 0 THEN -s.off ELSE s.off
    IN  IF s.fmt = "z" THEN [style |-> "Z", sign |-> "", hh |-> 0, mm |-> 0]
        ELSE [style |-> IF s.fmt = "jira" THEN "+HHMM" ELSE "+HH:MM",
              sign |-> IF s.off < 0 THEN "-" ELSE "+",
              hh |-> a \div Hour, mm |-> (a % Hour) \div 60]

ConvInit ==
    /\ InitSession
    /\ pager = None
    /\ resolver = None
    /\ lookup = None
    /\ loads = None
    /\ \E s \in WireInputs :
            conv = [input |-> s, done |-> FALSE,
                    output |-> [wall |-> 0, off |-> 0, fmt |-> "absent"]]

ToWire ==
    /\ conv # None
    /\ ~conv.done
    /\ conv' = [conv EXCEPT !.done = TRUE,
                            !.output = jira_datetime_from_iso(conv.input)]
    /\ UNCHANGED <<session, pager, resolver, lookup, loads>>

ConvNext == ToWire

ConvSpec == ConvInit /\ [][ConvNext]_vars

----------------------------------------------------------------------------
(* Clicks on empty slots at instants on and off the five-minute grid: the  *)
(* dateClick payload is the instant the calendar component reports.        *)

\* 01:00:00, 01:02:30 and 01:04:59 UTC, reported with offset +02:00
PointerClicks == { Str(10800, 7200), Str(10950, 7200), Str(11099, 7200) }

\* lines 57-59: minute = (dt.minute // 5) * 5, second = 0
round_to_5min(dt) == [wall |-> (dt.wall \div Grid) * Grid, off |-> dt.off]

ClickInit == Init

ClickNext ==
    \/ \E d \in PointerClicks, ok \in BOOLEAN : SlotClicked(d, ok)
    \/ \E i \in 1..Len(events), ok \in BOOLEAN : BlockClicked(i, ok)
    \/ \E i \in 1..Len(events), sp \in DragSpans, ok \in BOOLEAN : BlockChanged(i, sp, ok)
    \/ \E ok1 \in BOOLEAN, ok2 \in BOOLEAN : Cancel(ok1, ok2)

ClickSpec == ClickInit /\ [][ClickNext]_vars

----------------------------------------------------------------------------
(* cached_issues_for_epic_and_assignee, lines 313-365: the three JQL       *)
(* queries and the for loop over them, one jql_issues call per step,       *)
(* against a server that answers each query shape with a result, with an   *)
(* HTTP error status (raise_for_status raises requests.HTTPError) or not   *)
(* at all (session.post raises requests.Timeout, which is no HTTPError).   *)

QueryShapes == <<"childIssuesOf", "epicLinkField", "parentEpic">>

EpicFieldTokens == { <<"Epic Link">>, <<"cf[", "10014", "]">> }

Answers ==
    [kind : {"ok"}, status : {200}, issues : {<<>>, <<"ABC-2">>}]
    \cup [kind : {"http_error"}, status : {400, 500}, issues : {<<>>}]
    \cup [kind : {"timeout"}, status : {0}, issues : {<<>>}]

\* lines 325-349: the JQL texts, in the order they are appended
QueriesFor(epic_field) ==
    << [shape |-> "childIssuesOf", field |-> <<>>],
       [shape |-> "epicLinkField", field |-> epic_field],
       [shape |-> "parentEpic", field |-> <<>>] >>

\* the exception a failed jql_issues call raises
ErrorOf(query, answer) ==
    [class |-> IF answer.kind = "http_error" THEN "HTTPError" ELSE "Timeout",
     status |-> answer.status, shape |-> query.shape]

LookupInit ==
    /\ InitSession
    /\ pager = None
    /\ resolver = None
    /\ conv = None
    /\ loads = None
    /\ \E answers \in [1..Len(QueryShapes) -> Answers], epic_field \in EpicFieldTokens :
            lookup = [answers |-> answers, queries |-> QueriesFor(epic_field),
                      sent |-> <<>>, last_err |-> None, outcome |-> "running",
                      issues |-> <<>>, error |-> None]

\* one iteration of the for loop (lines 353-359), together with what follows
\* the loop when it was the last one (lines 362-363)
TryQuery ==
    /\ lookup # None
    /\ lookup.outcome = "running"
    /\ LET n      == Len(lookup.sent) + 1
           jql    == lookup.queries[n]
           answer == lookup.answers[n]
           err    == ErrorOf(jql, answer)
       IN  lookup' =
             IF answer.kind = "ok"
             THEN [lookup EXCEPT !.sent = Append(@, jql), !.outcome = "returned",
                                 !.issues = answer.issues]
             ELSE IF answer.kind = "http_error"
             THEN IF n < Len(lookup.queries)
                  THEN [lookup EXCEPT !.sent = Append(@, jql), !.last_err = err]
                  ELSE [lookup EXCEPT !.sent = Append(@, jql), !.last_err = err,
                                      !.outcome = "raised", !.error = err]
             ELSE [lookup EXCEPT !.sent = Append(@, jql), !.outcome = "raised",
                                 !.error = err]
    /\ UNCHANGED <<session, pager, resolver, conv, loads>>

LookupNext == TryQuery

LookupSpec == LookupInit /\ [][LookupNext]_vars

----------------------------------------------------------------------------
(* The session with the informational fetches of a run that may fail: the  *)
(* user search and its fallbacks to the current user (lines 239-252 and    *)
(* 416-442), the week's worklogs (lines 489-499), the epic list (lines     *)
(* 700-709) and the issue list of the chosen epic (lines 743-754).         *)
(* `fails` names the fetches that raise, when attempted, while one         *)
(* interaction is handled.  The caches of the user search, the epic list   *)
(* and the issue list are taken as expired.                                *)

\* "forbidden": the user search is answered with status 403; "users": it
\* fails in any other way
Fetches == {"users", "forbidden", "myself", "worklogs", "epics", "issues"}

\* no failure, and each fetch failing alone; the fallback to the current
\* user is attempted only when the user search gave nothing
FailSets ==
    { {}, {"users"}, {"forbidden"}, {"users", "myself"}, {"worklogs"}, {"epics"},
      {"issues"} }

\* the resize payloads used here: those that end after they start
FetchSpans == { sp \in DragSpans : Instant(sp.end) > Instant(sp.start) }

\* what the remote answers when the fetch succeeds
Directory == <<"u1", "u2">>
EpicKeys == <<"EPIC-1">>
EpicIssues == <<"ABC-2">>

\* what the manual issue key field may hold
ManualKeys == {"", "ABC-2"}

\* lines 239-252: the search result; on status 403 the current user alone,
\* an exception (here "raised") when the search or that lookup fails
cached_users(fails) ==
    IF "forbidden" \in fails
    THEN IF "myself" \in fails THEN <<"raised">> ELSE <<Me>>
    ELSE IF "users" \in fails THEN <<"raised">> ELSE Directory

\* lines 416-422: users = cached_users(...), [] when it raises
FoundUsers(fails) ==
    IF cached_users(fails) = <<"raised">> THEN <<>> ELSE cached_users(fails)

\* lines 424-442: the options of the user select box; the option "-" stands
\* for no account
UserOptions(fails) ==
    IF FoundUsers(fails) # <<>> THEN FoundUsers(fails)
    ELSE IF "myself" \in fails THEN <<"None">> ELSE <<Me>>

\* mutant: a failed worklog fetch ends the run where it happens
FetchedRun_aborts(c, d, db, cs, srv, sel, vis, fails) ==
    LET opts   == UserOptions(fails)
        acct   == IF \E i \in 1..Len(opts) : opts[i] = sel THEN sel ELSE opts[1]
        p      == IF acct = "None" THEN [events |-> WithDraft(<<>>, d), cache |-> c]
                  ELSE Project(c, d, srv, acct, vis, "worklogs" \notin fails)
        h      == CalendarHandlers(d, db, cs)
        isnew  == h.draft # None /\ h.draft.mode = "new"
        epics  == IF isnew /\ "epics" \notin fails THEN EpicKeys ELSE <<>>
        issues == IF isnew /\ epics # <<>> /\ acct # "None" /\ "issues" \notin fails
                  THEN EpicIssues ELSE <<>>
    IN  IF "worklogs" \in fails
        THEN [account |-> acct, events |-> <<>>, cache |-> c, draft |-> d, deb |-> db,
              loads |-> [users |-> FoundUsers(fails), options |-> opts,
                         epics |-> <<>>, issues |-> <<>>]]
        ELSE [account |-> acct, events |-> p.events, cache |-> p.cache,
              draft |-> h.draft, deb |-> h.deb,
              loads |-> [users |-> FoundUsers(fails), options |-> opts,
                         epics |-> epics, issues |-> issues]]

\* one run of the script down to the editor's form: sel is the value of the
\* user select box, kept when it is among the options, else the first option
FetchedRun(c, d, db, cs, srv, sel, vis, fails) ==
    LET opts   == UserOptions(fails)
        acct   == IF \E i \in 1..Len(opts) : opts[i] = sel THEN sel ELSE opts[1]
        p      == IF acct = "None" THEN [events |-> WithDraft(<<>>, d), cache |-> c]
                  ELSE Project(c, d, srv, acct, vis, "worklogs" \notin fails)
        h      == CalendarHandlers(d, db, cs)
        isnew  == h.draft # None /\ h.draft.mode = "new"
        epics  == IF isnew /\ "epics" \notin fails THEN EpicKeys ELSE <<>>
        issues == IF isnew /\ epics # <<>> /\ acct # "None" /\ "issues" \notin fails
                  THEN EpicIssues ELSE <<>>
    IN  [account |-> acct, events |-> p.events, cache |-> p.cache,
         draft |-> h.draft, deb |-> h.deb,
         loads |-> [users |-> FoundUsers(fails), options |-> opts,
                    epics |-> epics, issues |-> issues]]

\* the session after a run that ended in state r
Shown(r) ==
    /\ account' = r.account
    /\ events' = r.events
    /\ cache' = r.cache
    /\ draft' = r.draft
    /\ deb' = r.deb
    /\ loads' = r.loads

\* a run that presses no button, on the component value cs
FetchRun(cs, fails) ==
    /\ Shown(FetchedRun(cache, draft, deb, cs, remote, account, visible, fails))
    /\ cal_state' = cs
    /\ calls' = <<>>
    /\ UNCHANGED <<remote, visible, writes, tz, pager, resolver, conv, lookup>>

\* Cancel button: the draft is dropped and the script reruns
FetchCancel(fails) ==
    /\ draft # None
    /\ LET r1 == FetchedRun(cache, draft, deb, cal_state, remote, account, visible, fails)
           r2 == FetchedRun(r1.cache, None, r1.deb, cal_state, remote, r1.account,
                            visible, fails)
       IN  IF r1.draft # None THEN Shown(r2) ELSE Shown(r1)
    /\ calls' = <<>>
    /\ UNCHANGED <<cal_state, remote, visible, writes, tz, pager, resolver, conv, lookup>>

\* Save button with the form values k and c; accepted: the server takes the
\* request.  The issue key comes from the issue select box when the issue
\* list is not empty, else from the manual field.
FetchSave(k, c, accepted, fails) ==
    /\ draft # None
    /\ LET r1   == FetchedRun(cache, draft, deb, cal_state, remote, account, visible, fails)
           d    == r1.draft
           reqs == SaveRequests(d, k, c)
           srv  == ApplyAll(remote, reqs)
           r2   == FetchedRun(None, None, r1.deb, cal_state, srv, r1.account,
                              visible, fails)
       IN  /\ d # None
           /\ IF d.mode = "edit" THEN k = ""
              ELSE IF r1.loads.issues # <<>>
                   THEN \E i \in 1..Len(r1.loads.issues) : k = r1.loads.issues[i]
                   ELSE k \in ManualKeys
           /\ IF d.mode = "new" /\ k = ""
              THEN /\ Shown(r1)
                   /\ calls' = <<>>
                   /\ UNCHANGED <<remote, writes>>
              ELSE IF accepted
              THEN /\ writes + Len(reqs) <= MaxWrites
                   /\ writes' = writes + Len(reqs)
                   /\ calls' = Logged(reqs, Len(reqs))
                   /\ remote' = srv
                   /\ Shown(r2)
              ELSE /\ Shown(r1)
                   /\ calls' = Logged(SubSeq(reqs, 1, 1), 0)
                   /\ UNCHANGED <<remote, writes>>
    /\ UNCHANGED <<cal_state, visible, tz, pager, resolver, conv, lookup>>

FetchInit == Init

FetchNext ==
    \/ \E d \in ClickDates, fails \in FailSets :
            FetchRun([callback |-> "dateClick", dateClick |-> d], fails)
    \/ \E i \in 1..Len(events), fails \in FailSets :
            FetchRun([callback |-> "eventClick", event |-> EventOf(events[i])], fails)
    \/ \E i \in 1..Len(events), sp \in FetchSpans, fails \in FailSets :
            FetchRun([callback |-> "eventChange",
                      event |-> [EventOf(events[i]) EXCEPT !.start = sp.start,
                                                           !.end = sp.end]], fails)
    \/ \E fails \in FailSets : FetchRun(cal_state, fails)
    \/ \E fails \in FailSets : FetchCancel(fails)
    \/ \E k \in ManualKeys, accepted \in BOOLEAN, fails \in FailSets :
            FetchSave(k, "", accepted, fails)

FetchSpec == FetchInit /\ [][FetchNext]_vars

----------------------------------------------------------------------------
(* Properties *)

DraftIds == { <<"__DRAFT__">>, <<"__DRAFT_EDIT__">> }

\* positions of the draft-derived blocks of a projection output
DraftBlocksOf(evs) == { i \in 1..Len(evs) : evs[i].id \in DraftIds }

\* the script ran (every action but the passing of the cache ttl)
ScriptRan == ~CacheExpire

\* the draft that the last projection of a step read: a step that ends in
\* st.rerun() (draft dropped, or week shifted) projects a second time
DraftProjected ==
    IF (draft # None /\ draft' = None) \/ visible' # visible THEN draft' ELSE draft

\* C1: every projection output holds at most one block derived from the draft;
\* that block is there iff a draft existed when the projection ran, it is the
\* only block with editable = TRUE, and every block built from a committed
\* worklog has editable = FALSE.
C1_SingleDraftBlock ==
    /\ [](/\ Cardinality(DraftBlocksOf(events)) <= 1
          /\ \A i \in 1..Len(events) :
                /\ events[i].editable <=> i \in DraftBlocksOf(events)
                /\ HasSep(events[i].id) => ~events[i].editable
                /\ HasSep(events[i].id) \/ events[i].id \in DraftIds)
    /\ [][ScriptRan =>
            /\ DraftBlocksOf(events') # {} <=> DraftProjected # None
            /\ DraftProjected # None =>
                    events'[Len(events')] = DraftBlock(DraftProjected)]_vars

C1_Witness ==
    /\ draft # None
    /\ Len(events) = 2
    /\ ~events[1].editable
    /\ events[2] = DraftBlock(draft)

\* a Save that reaches the server, with the form values k and c
SaveStep(k, c) == \E ok \in BOOLEAN : SaveFailed(k, c, ok) \/ SaveOk(k, c, ok)

AnySaveStep == \E k \in SaveKeys, c \in Comments : SaveStep(k, c)

WireOf(s) == [wall |-> Instant(s), off |-> 0, fmt |-> "jira"]

\* C2: Save on a new draft with a non-empty issue key sends exactly one
\* addWorklog request, carrying the chosen key, the draft's start instant in
\* wire format (UTC, +0000), max(end - start, 60) seconds and the entered
\* comment; if it is accepted the draft becomes absent.  No step other than a
\* Save sends a request or adds a worklog on the server.
C2_SaveNewAddsOnce ==
    [][ /\ \A k \in SaveKeys, c \in Comments :
            ( /\ calls' # <<>>
              /\ draft # None /\ draft.mode = "new" /\ k # "" /\ SaveStep(k, c) ) =>
                /\ Len(calls') = 1
                /\ calls'[1].op = "add"
                /\ calls'[1].issueKey = k
                /\ calls'[1].started = WireOf(draft.start)
                /\ calls'[1].timeSpentSeconds
                        = Max(Instant(draft.end) - Instant(draft.start), MinDur)
                /\ calls'[1].comment = c
                /\ "comment" \in calls'[1].fields <=> c # ""
                /\ calls'[1].status = "ok" =>
                        /\ draft' = None
                        /\ Len(remote') = Len(remote) + 1
        /\ \/ /\ calls' = <<>> \/ calls' = calls
              /\ remote' = remote
           \/ AnySaveStep ]_vars

C2_Witness ==
    /\ draft = None
    /\ Len(calls) = 1
    /\ calls[1].op = "add"
    /\ calls[1].status = "ok"
    /\ calls[1].timeSpentSeconds = MinDur

\* the latest interaction was a Save whose request the server refused
LastSaveFailed == calls # <<>> /\ calls[Len(calls)].status = "failed"

\* the same Save pressed again, with the same form values
SaveAgain ==
    SaveStep(IF calls[1].op = "add" THEN calls[1].issueKey ELSE "", calls[1].comment)

\* C3: when the request sent by Save fails, the draft is exactly as before
\* (mode, target, start, end), a filled cache is not invalidated, the server
\* is unchanged, the request is not sent a second time, and the same Save can
\* be pressed again.
C3_FailedSaveKeepsDraft ==
    /\ [][ \A k \in SaveKeys, c \in Comments, ok \in BOOLEAN :
            (calls' # <<>> /\ SaveFailed(k, c, ok)) =>
                /\ draft' = draft
                /\ draft' # None
                /\ cache # None => cache' = cache
                /\ remote' = remote
                /\ Len(calls') = 1 ]_vars
    /\ [](LastSaveFailed => draft # None /\ ENABLED SaveAgain)

C3_Witness ==
    /\ LastSaveFailed
    /\ draft # None
    /\ cache # None

\* block b shows the entry written by request req
Matches(b, req) ==
    /\ HasSep(b.id)
    /\ b.issueKey = req.issueKey
    /\ Instant(b.start) = Instant(req.started)
    /\ b.timeSpentSeconds = req.timeSpentSeconds

\* the author of the entry a request writes
AuthorOf(srv, req) ==
    IF req.op = "add" THEN Me
    ELSE LET i == CHOOSE j \in 1..Len(srv) :
                      srv[j].issueKey = req.issueKey /\ srv[j].id = req.worklogId
         IN  srv[i].author

InVisibleRange(s) ==
    /\ Instant(visible.start) <= Instant(s)
    /\ Instant(s) <= Instant(visible.end)

\* C4 as stated: after a successful Save the next projection output includes
\* a block matching the saved entry's (issueKey, startInstant, duration).
C4_AsStated ==
    [][ \A k \in SaveKeys, c \in Comments, ok \in BOOLEAN :
            SaveOk(k, c, ok) =>
                \E i \in 1..Len(events') : Matches(events'[i], calls'[1]) ]_vars

\* C4 amended: after a successful Save the cache is cleared before the next
\* projection, whose output is therefore a fresh read of the server as the
\* write left it, or empty when that read fails; when the read succeeds and
\* the saved entry is authored by the selected person and starts within the
\* visible range, the output includes a block matching the saved entry.
C4_ReadYourWrites ==
    [][ \A k \in SaveKeys, c \in Comments, ok \in BOOLEAN :
            (calls' # <<>> /\ SaveOk(k, c, ok)) =>
                LET fresh == cached_worklogs_week(remote', account,
                                                  visible.start, visible.end)
                    req == calls'[1]
                IN  /\ events' = IF ok THEN fresh ELSE <<>>
                    /\ cache' = IF ok THEN [key |-> <<account, visible.start, visible.end>>,
                                            val |-> fresh]
                                ELSE None
                    /\ ( /\ ok
                         /\ AuthorOf(remote', req) = account
                         /\ InVisibleRange(req.started) )
                       => \E i \in 1..Len(events') : Matches(events'[i], req) ]_vars

C4_Witness ==
    /\ draft = None
    /\ Len(calls) = 1
    /\ calls[1].status = "ok"
    /\ calls[1].op = "add"
    /\ \E i \in 1..Len(events) : Matches(events[i], calls[1])

AnyBlockChanged ==
    \E i \in 1..Len(events), sp \in DragSpans, ok \in BOOLEAN : BlockChanged(i, sp, ok)

\* the blockChanged event delivered by this step is the one delivered just before
SameAsPreceding == cal_state # None /\ cal_state' = cal_state

\* C5 as stated: of two identical blockChanged events delivered consecutively
\* the second is discarded, and the remote update call is invoked exactly once
\* (by the first one).
C5_AsStated ==
    [][ (AnyBlockChanged /\ draft # None /\ cal_state'.event.id = draft.id) =>
            IF SameAsPreceding
            THEN draft' = draft /\ calls' = <<>>
            ELSE Len(calls') = 1 /\ calls'[1].op = "update" ]_vars

\* C5 amended: a blockChanged event is remembered as the last payload of its
\* class; when the same payload is delivered again right after, the second
\* delivery is discarded (draft and debounce memory unchanged), so the change
\* is applied to the draft at most once - by the first delivery, when the
\* event carries the id "__DRAFT__" - and neither delivery sends a request.
C5_Deduplicated ==
    [][ AnyBlockChanged =>
            /\ calls' = <<>>
            /\ remote' = remote
            /\ deb'.eventChange = cal_state'.event
            /\ SameAsPreceding => draft' = draft /\ deb' = deb
            /\ ( /\ deb.eventChange # cal_state'.event
                 /\ draft # None
                 /\ StartsWithDraft(cal_state'.event.id) )
               => /\ draft'.start = utc_iso(cal_state'.event.start)
                  /\ draft'.end = utc_iso(cal_state'.event.end) ]_vars

C5_Witness ==
    /\ cal_state # None
    /\ cal_state.callback = "eventChange"
    /\ deb.eventChange = cal_state.event
    /\ draft # None
    /\ draft.start = utc_iso(cal_state.event.start)
    /\ \E i \in 1..Len(events) : events[i].id = cal_state.event.id

\* C6 as stated: a click on an empty slot, in any draft state and after any
\* earlier events, leaves a draft in mode new with no target issue or worklog,
\* spanning one hour from the clicked time.
C6_SlotClickMakesNewDraft ==
    [][ \A d \in ClickDates, ok \in BOOLEAN :
            SlotClicked(d, ok) =>
                /\ draft' # None
                /\ draft'.mode = "new"
                /\ draft'.id = <<"__DRAFT__">>
                /\ draft'.issueKey = "None"
                /\ draft'.worklogId = "None"
                /\ Instant(draft'.start) = Instant(d)
                /\ Instant(draft'.end) = Instant(d) + Hour ]_vars

\* C7 as stated: a click on a committed block, in any draft state, leaves a
\* draft in mode edit whose target issue key, target worklog id, start, end
\* and comment are those of the clicked block.
C7_BlockClickMakesEditDraft ==
    [][ \A i \in 1..Len(events), ok \in BOOLEAN :
            (BlockClicked(i, ok) /\ HasSep(events[i].id)) =>
                /\ draft' # None
                /\ draft'.mode = "edit"
                /\ draft'.issueKey = events[i].issueKey
                /\ draft'.worklogId = events[i].worklogId
                /\ Instant(draft'.start) = Instant(events[i].start)
                /\ Instant(draft'.end) = Instant(events[i].end)
                /\ draft'.comment = events[i].comment ]_vars

\* C8 as stated: a drag/resize of the draft's own block, the draft being new
\* or editing, sets the draft's start and end to the event's new start and
\* end, leaves mode, target issue key, target worklog id and comment
\* unchanged, and sends no request.
C8_DragOwnBlockRetimesDraft ==
    [][ \A i \in 1..Len(events), sp \in DragSpans, ok \in BOOLEAN :
            (BlockChanged(i, sp, ok) /\ draft # None /\ events[i].id = draft.id) =>
                /\ draft' # None
                /\ Instant(draft'.start) = Instant(sp.start)
                /\ Instant(draft'.end) = Instant(sp.end)
                /\ draft'.mode = draft.mode
                /\ draft'.issueKey = draft.issueKey
                /\ draft'.worklogId = draft.worklogId
                /\ draft'.comment = draft.comment
                /\ calls' = <<>>
                /\ remote' = remote ]_vars

\* C9 as stated: a drag/resize of a block that is not the draft's block is
\* rejected in every state: the draft (or its absence) is unchanged, the
\* committed entries are unchanged and no request is sent.
C9_DragOtherBlockRejected ==
    [][ \A i \in 1..Len(events), sp \in DragSpans, ok \in BOOLEAN :
            (BlockChanged(i, sp, ok) /\ (draft = None \/ events[i].id # draft.id)) =>
                /\ draft' = draft
                /\ remote' = remote
                /\ calls' = <<>> ]_vars

\* a Save of an edit draft that reaches the server, with the entered comment c
EditSaveStep(c) == draft # None /\ draft.mode = "edit" /\ SaveStep("", c)

\* the server's entry (issue_key, worklog_id)
EntryOf(srv, issue_key, worklog_id) ==
    LET i == CHOOSE j \in 1..Len(srv) :
                 srv[j].issueKey = issue_key /\ srv[j].id = worklog_id
    IN  srv[i]

\* C10 as stated: Save on an edit draft sends ordered, separately committed
\* partial writes - the start alone first, then the duration - and when they
\* succeed the draft becomes absent.
C10_AsStated ==
    [][ \A c \in Comments, ok \in BOOLEAN :
            (draft # None /\ draft.mode = "edit" /\ SaveOk("", c, ok)) =>
                /\ Len(calls') >= 2
                /\ calls'[1].fields = {"started"}
                /\ "timeSpentSeconds" \in calls'[2].fields
                /\ draft' = None ]_vars

\* C10 amended: Save on an edit draft sends exactly one updateWorklog request
\* for the draft's (issue key, worklog id); it carries the start (wire format)
\* and max(end - start, 60) seconds together, and the comment iff one was
\* entered.  When it is accepted the entry's start and duration change in one
\* write and the draft becomes absent; when it is refused nothing changes on
\* the server.
C10_OneAtomicUpdate ==
    [][ \A c \in Comments :
            (calls' # <<>> /\ EditSaveStep(c)) =>
                /\ Len(calls') = 1
                /\ calls'[1].op = "update"
                /\ calls'[1].issueKey = draft.issueKey
                /\ calls'[1].worklogId = draft.worklogId
                /\ calls'[1].fields = {"started", "timeSpentSeconds"}
                        \cup (IF c # "" THEN {"comment"} ELSE {})
                /\ calls'[1].started = WireOf(draft.start)
                /\ calls'[1].timeSpentSeconds
                        = Max(Instant(draft.end) - Instant(draft.start), MinDur)
                /\ c # "" => calls'[1].comment = c
                /\ calls'[1].status = "ok" =>
                        /\ draft' = None
                        /\ Len(remote') = Len(remote)
                        /\ LET e == EntryOf(remote', draft.issueKey, draft.worklogId)
                           IN  /\ e.started = Instant(draft.start)
                               /\ e.secs = calls'[1].timeSpentSeconds
                /\ calls'[1].status = "failed" => remote' = remote /\ draft' = draft ]_vars

C10_Witness ==
    /\ draft = None
    /\ Len(calls) = 1
    /\ calls[1].op = "update"
    /\ calls[1].status = "ok"
    /\ calls[1].fields = {"started", "timeSpentSeconds", "comment"}

AnyCancel == \E ok1 \in BOOLEAN, ok2 \in BOOLEAN : Cancel(ok1, ok2)

\* C11: Cancel on a draft, new or editing, makes the draft absent and sends
\* no write request (neither add nor update); the worklogs on the server are
\* unchanged, and the calendar that follows shows no draft block.
C11_CancelDropsDraft ==
    [][ (draft # None /\ cal_state' = cal_state /\ AnyCancel) =>
            /\ draft.mode \in {"new", "edit"}
            /\ draft' = None
            /\ calls' = <<>>
            /\ writes' = writes
            /\ remote' = remote
            /\ DraftBlocksOf(events') = {} ]_vars

\* the draft was cancelled: a click made one, nothing was written, none is left
C11_Witness ==
    /\ draft = None
    /\ cal_state # None
    /\ cal_state.callback = "eventClick"
    /\ deb.eventClick = cal_state.event
    /\ account = Me
    /\ writes = 0
    /\ calls = <<>>
    /\ DraftBlocksOf(events) = {}
    /\ Len(events) = 1

AnySaveOk == \E k \in SaveKeys, c \in Comments, ok \in BOOLEAN : SaveOk(k, c, ok)

\* C12 as stated: a live draft becomes absent only by a Save whose write
\* succeeded or by Cancel; navigation, a change of the selected person or
\* timezone, a failed Save, a drag or a failed projection never remove it.
C12_OnlySaveOrCancelDestroy ==
    [][ (draft # None /\ draft' = None) => (AnySaveOk \/ AnyCancel) ]_vars

\* C13 as stated: get_issue_worklogs terminates for every server behaviour,
\* also when the reported total is smaller than the number of delivered items
\* and when a page comes back empty, with or without maxResults, while fewer
\* items than the reported total were accumulated (runs that leave the
\* offsets followed here are not judged).
C13_Terminates == <>(pager.done \/ pager.start_at > MaxOffset)

\* the server holds exactly what it reports and reports its page size
Honest(srv) == srv.total = srv.n

\* C14: against a server that holds N worklogs, serves pages of size P from
\* the requested offset and reports total = N, the loop requests offsets
\* 0, P, 2P, ..., stops as soon as the accumulated count reaches the total -
\* after one page when the first page holds everything - and returns the N
\* entries exactly once, in server order.
C14_PagesInOrder ==
    /\ [](Honest(pager.srv) =>
            /\ pager.all_logs = [i \in 1..Len(pager.all_logs) |-> i]
            /\ Len(pager.all_logs) <= pager.srv.n
            /\ pager.done <=> (pager.tick = 1 \/ Len(pager.all_logs) > 0)
                              /\ Len(pager.all_logs) = pager.srv.n
            /\ ~pager.done => /\ pager.start_at = Len(pager.all_logs)
                              /\ pager.start_at % pager.srv.size = 0)
    /\ [][ (FetchPage /\ Honest(pager.srv)) =>
            /\ Len(pager'.all_logs)
                    = Min(pager.start_at + pager.srv.size, pager.srv.n)
            /\ pager.srv.n <= pager.srv.size => pager'.done
            /\ pager'.done <=> Len(pager'.all_logs) = pager.srv.n ]_vars

C14_Witness ==
    /\ pager.done
    /\ pager.srv = [n |-> 3, total |-> 3, size |-> 1, hasMax |-> TRUE]
    /\ pager.all_logs = <<1, 2, 3>>
    /\ pager.start_at = 2

\* the script ran and its reads of the server succeeded
ProjectedOk ==
    \/ OtherWidget(TRUE)
    \/ \E p \in Persons : _on_user_change(p, TRUE)
    \/ \E days \in {-7, 7} : _shift_visible(days, TRUE)

\* stored entry e is by person and starts within [vis.start, vis.end]
Wanted(e, person, vis) ==
    /\ e.author = person
    /\ Instant(vis.start) <= e.started
    /\ e.started <= Instant(vis.end)

BlocksOf(evs, e) ==
    { i \in 1..Len(evs) : evs[i].id = <<e.issueKey, "::", e.id>> }

\* C15: every block the projection builds from a committed entry comes from
\* an entry of the selected person whose start instant lies within the
\* visible range, both bounds included and compared as instants; and every
\* such entry (its issue is then matched by the search) has exactly one block.
C15_FilterCorrect ==
    [][ ProjectedOk =>
            /\ \A i \in 1..Len(events') :
                  HasSep(events'[i].id) =>
                      \E j \in 1..Len(remote) :
                          /\ i \in BlocksOf(events', remote[j])
                          /\ Wanted(remote[j], account', visible')
                          /\ Instant(events'[i].start) = remote[j].started
            /\ \A j \in 1..Len(remote) :
                  Wanted(remote[j], account', visible') =>
                      Cardinality(BlocksOf(events', remote[j])) = 1 ]_vars

\* shown: an entry starting exactly at the end of the range; left out: one of
\* the same issue and person starting a second later
C15_Witness ==
    /\ Len(remote) = 2
    /\ remote[1].issueKey = remote[2].issueKey
    /\ remote[1].author = account
    /\ remote[2].author = account
    /\ remote[1].started = Instant(visible.end)
    /\ remote[2].started = Instant(visible.end) + 1
    /\ Len(events) = 1
    /\ events[1].id = <<remote[1].issueKey, "::", "w1">>

\* C17 as stated: every block of a projection output built from a committed
\* entry lasts max(timeSpentSeconds, 60) seconds, also when the entry's
\* timeSpentSeconds is below 60 or missing.
C17_BlockDurationFloor ==
    [][ ProjectedOk =>
            \A i \in 1..Len(events') :
                HasSep(events'[i].id) =>
                    Instant(events'[i].end) - Instant(events'[i].start)
                        = Max(events'[i].timeSpentSeconds, MinDur) ]_vars

\* C16: every add and update request sent to the server carries
\* timeSpentSeconds >= 60, whatever clicks and drags made the draft - also a
\* draft whose end is at or before its start - and so does every entry a
\* request has written.
C16_MinDurationOnWire ==
    /\ [](\A i \in 1..Len(calls) :
            /\ calls[i].op \in {"add", "update"}
            /\ "timeSpentSeconds" \in calls[i].fields
            /\ calls[i].timeSpentSeconds >= MinDur)
    /\ [][ (calls' # <<>> /\ AnySaveStep) =>
            /\ calls' # <<>>
            /\ calls'[1].timeSpentSeconds
                    = Max(Instant(draft.end) - Instant(draft.start), MinDur)
            /\ \A j \in 1..Len(remote') :
                    (j > Len(remote) \/ remote'[j] # remote[j]) =>
                        remote'[j].secs >= MinDur ]_vars

\* a request sent for a draft that ends before it starts
C16_Witness ==
    /\ LastSaveFailed
    /\ draft # None
    /\ Instant(draft.end) < Instant(draft.start)
    /\ calls[1].timeSpentSeconds = MinDur

\* positions of the catalog entries that carry the epic-link schema marker
Marked(fields) == { i \in 1..Len(fields) : fields[i].custom = EpicLinkSchema }

FirstMarked(fields) ==
    fields[CHOOSE i \in Marked(fields) : \A j \in Marked(fields) : i <= j]

\* C18: epic_link_jql_name always returns a token and lets no exception
\* escape: cf[<digits>] when the first entry carrying the schema marker has a
\* customfield_ id; that entry's display name when its id is not of that form
\* ("Epic Link" when it has no name either); "Epic Link" when the catalog call
\* fails or no entry carries the marker.
C18_TokenAlwaysReturned ==
    /\ [](~resolver.returned => ENABLED ResolveToken)
    /\ [](resolver.returned =>
            LET fields == resolver.fields
            IN  /\ resolver.result # <<>>
                /\ (resolver.fails \/ Marked(fields) = {})
                        => resolver.result = <<"Epic Link">>
                /\ (~resolver.fails /\ Marked(fields) # {}) =>
                        LET f == FirstMarked(fields)
                        IN  /\ IsCustomFieldId(f.id) =>
                                /\ Len(resolver.result) = Len(f.id) + 1
                                /\ resolver.result[1] = "cf["
                                /\ resolver.result[Len(resolver.result)] = "]"
                                /\ \A k \in 2..Len(f.id) : resolver.result[k] = f.id[k]
                            /\ (~IsCustomFieldId(f.id) /\ f.name # None)
                                => resolver.result = f.name.some
                            /\ (~IsCustomFieldId(f.id) /\ f.name = None)
                                => resolver.result = <<"Epic Link">>)

\* the marked entry with a custom field id comes second, after an unmarked one
C18_Witness ==
    /\ resolver.returned
    /\ resolver.result = <<"cf[", "10014", "]">>
    /\ Len(resolver.fields) = 2
    /\ resolver.fields[1].custom = "other"
    /\ resolver.fields[1].id = <<"customfield_">>
    /\ resolver.fields[2].name # None

\* an explicit navigation: Prev, Next, Today or a date picked in the date input
Navigation ==
    \/ \E days \in {-7, 7}, ok \in BOOLEAN : _shift_visible(days, ok)
    \/ \E ok \in BOOLEAN : Today(ok)
    \/ \E d \in JumpDates, ok \in BOOLEAN : _jump_to_selected_date(d, ok)

\* C19 as stated: the visible range always spans exactly 7 days from a Monday
\* 00:00 in the selected timezone, after any navigations and timezone
\* selections; and only navigations change it - no click, drag, Save, Cancel
\* or change of person.
C19_MondayToMonday ==
    /\ [](/\ Instant(visible.end) = Instant(visible.start) + 7 * Day
          /\ (Instant(visible.start) + UtcOffset(tz)) % Week = 0)
    /\ [][visible' # visible => Navigation]_vars

\* C20: Save on a new draft with an empty issue key is a validation error:
\* no request is sent, the server is unchanged, the draft is as before and a
\* filled worklogs cache is kept.
C20_SaveWithoutKeyRejected ==
    /\ [][ (\E ok \in BOOLEAN : SaveInvalid(ok)) =>
            /\ calls' = <<>>
            /\ writes' = writes
            /\ remote' = remote
            /\ draft' = draft
            /\ draft'.mode = "new"
            /\ cache # None => cache' = cache ]_vars
    /\ [](\A c \in Comments, ok \in BOOLEAN :
            (draft # None /\ draft.mode = "new") =>
                ~ENABLED (SaveOk("", c, ok) \/ SaveFailed("", c, ok)))

\* a new draft shown in the editor, the cache filled, nothing sent so far
C20_Witness ==
    /\ draft # None
    /\ draft.mode = "new"
    /\ DraftBlocksOf(events) # {}
    /\ cache # None
    /\ calls = <<>>
    /\ writes = 0
    /\ ENABLED SaveInvalid(TRUE)

\* C21: for every wire-format input (milliseconds .000, any numeric offset)
\* the string jira_datetime_from_iso returns parses to the same absolute
\* instant as the input, is itself in wire format, and spells its offset
\* +0000, never Z.
C21_WireRoundTrip ==
    /\ [](~conv.done => ENABLED ToWire)
    /\ []((conv.done /\ conv.input.fmt = "jira") =>
            /\ Instant(parse_iso(conv.output)) = Instant(parse_iso(conv.input))
            /\ conv.output.fmt = "jira"
            /\ OffsetText(conv.output)
                    = [style |-> "+HHMM", sign |-> "+", hh |-> 0, mm |-> 0])

\* an input east of UTC by five and a half hours, just after midnight there
C21_Witness ==
    /\ conv.done
    /\ conv.input = [wall |-> 1, off |-> 5 * Hour + 1800, fmt |-> "jira"]
    /\ conv.output = [wall |-> 1 - (5 * Hour + 1800), off |-> 0, fmt |-> "jira"]

\* C22 as stated: the draft a click on an empty slot creates starts at the
\* click instant truncated down to the five-minute grid (a multiple of five
\* minutes, at most the click instant and less than five minutes before it)
\* and ends one hour after its start.
C22_ClickSnapsToGrid ==
    [][ \A d \in PointerClicks, ok \in BOOLEAN :
            (SlotClicked(d, ok) /\ deb.dateClick # d) =>
                /\ draft' # None
                /\ draft'.mode = "new"
                /\ Instant(draft'.start) = Instant(round_to_5min(parse_iso(d)))
                /\ Instant(draft'.start) % Grid = 0
                /\ Instant(draft'.start) <= Instant(d)
                /\ Instant(d) < Instant(draft'.start) + Grid
                /\ Instant(draft'.end) = Instant(draft'.start) + Hour ]_vars

\* C23 as stated: whenever a draft exists it lasts at least 60 seconds, also
\* after a drag or resize that asks for less or for an end before the start,
\* and so does the draft block of every projection output.
C23_DraftAtLeastOneMinute ==
    /\ draft # None => Instant(draft.end) - Instant(draft.start) >= MinDur
    /\ \A i \in DraftBlocksOf(events) :
            Instant(events[i].end) - Instant(events[i].start) >= MinDur

\* the query shapes whose answer is a result
Succeeding(answers) == { n \in 1..Len(QueryShapes) : answers[n].kind = "ok" }

\* C24 as stated: the lookup sends its query shapes in the order
\* childIssuesOf, epic link field, parentEpic; it returns the result of the
\* first shape that succeeds and sends none after it; a shape that fails in
\* any way - HTTP error status or timeout - is followed by the next one; an
\* error is raised only when all three failed, and it is the failure of the
\* third.
C24_FirstSuccessWins ==
    LET answers == lookup.answers
        sent    == lookup.sent
        ok      == Succeeding(answers)
        first   == CHOOSE n \in ok : \A m \in ok : n <= m
    IN  /\ Len(sent) <= Len(QueryShapes)
        /\ \A n \in 1..Len(sent) : sent[n].shape = QueryShapes[n]
        /\ lookup.outcome = "returned" =>
                /\ ok # {}
                /\ Len(sent) = first
                /\ lookup.issues = answers[first].issues
        /\ lookup.outcome = "raised" =>
                /\ ok = {}
                /\ Len(sent) = Len(QueryShapes)
                /\ lookup.error = ErrorOf(lookup.queries[Len(QueryShapes)],
                                          answers[Len(QueryShapes)])
        /\ lookup.outcome = "running" => \A n \in 1..Len(sent) : n \notin ok

\* the next run, under the failures `fails`, renders the editor form with its
\* Save and Cancel buttons (line 676)
EditorShown(fails) ==
    FetchedRun(cache, draft, deb, cal_state, remote, account, visible, fails).draft # None

----------------------------------------------------------------------------
(* The session of a user who already has two worklogs in the visible week, *)
(* on different issues: the committed blocks an edit draft can come from.  *)

EditRemote ==
    << [issueKey |-> "ABC-1", id |-> "w1", author |-> Me, started |-> 3600,
        secs |-> 1800, comment |-> "done"],
       [issueKey |-> "ABC-2", id |-> "w2", author |-> Me, started |-> 7200,
        secs |-> 1800, comment |-> ""] >>

EditInit ==
    /\ InitUi
    /\ remote = EditRemote
    /\ pager = None
    /\ resolver = None
    /\ conv = None
    /\ lookup = None
    /\ loads = None

\* clicks, drags, other widgets, Cancel and Save; the user and the week stay
EditNext ==
    \/ \E d \in ClickDates, ok \in BOOLEAN : SlotClicked(d, ok)
    \/ \E i \in 1..Len(events), ok \in BOOLEAN : BlockClicked(i, ok)
    \/ \E i \in 1..Len(events), sp \in DragSpans, ok \in BOOLEAN : BlockChanged(i, sp, ok)
    \/ \E ok \in BOOLEAN : OtherWidget(ok)
    \/ \E ok1 \in BOOLEAN, ok2 \in BOOLEAN : Cancel(ok1, ok2)
    \/ \E k \in SaveKeys, c \in Comments, ok \in BOOLEAN : SaveOk(k, c, ok)
    \/ \E k \in SaveKeys, c \in Comments, ok \in BOOLEAN : SaveFailed(k, c, ok)

EditSpec == EditInit /\ [][EditNext]_vars

C27_UpdateTargetsClickedBlock ==
    /\ [][ ( /\ draft' # None
             /\ draft'.mode = "edit"
             /\ \/ draft = None
                \/ draft.mode # "edit"
                \/ draft.issueKey # draft'.issueKey
                \/ draft.worklogId # draft'.worklogId ) =>
                /\ cal_state' # cal_state
                /\ cal_state'.callback = "eventClick"
                /\ \E i \in 1..Len(events) :
                        /\ ~events[i].editable
                        /\ cal_state'.event = EventOf(events[i])
                        /\ draft'.issueKey = events[i].issueKey
                        /\ draft'.worklogId = events[i].worklogId ]_vars
    /\ [][ ( /\ cal_state' # None
             /\ cal_state'.callback = "eventClick"
             /\ deb.eventClick # cal_state'.event ) =>
                \A i \in 1..Len(events) :
                    (~events[i].editable /\ cal_state'.event = EventOf(events[i])) =>
                        /\ draft' # None
                        /\ draft'.mode = "edit"
                        /\ draft'.issueKey = events[i].issueKey
                        /\ draft'.worklogId = events[i].worklogId ]_vars
    /\ [][ calls' # <<>> =>
                /\ draft # None
                /\ \A i \in 1..Len(calls') :
                        IF draft.mode = "edit"
                        THEN /\ calls'[i].op = "update"
                             /\ calls'[i].issueKey = draft.issueKey
                             /\ calls'[i].worklogId = draft.worklogId
                        ELSE /\ calls'[i].op = "add"
                             /\ draft.mode = "new"
                /\ calls'[Len(calls')].status = "failed" =>
                        /\ draft' = draft
                        /\ cal_state' = cal_state ]_vars

\* the second block was clicked while the first was being edited, a block was
\* dragged, and the Save of the edit draft was refused: the request named the
\* second block, which the draft still targets
C27_Witness ==
    /\ draft # None
    /\ draft.mode = "edit"
    /\ draft.issueKey = "ABC-2"
    /\ draft.worklogId = "w2"
    /\ deb.eventClick # Unset
    /\ deb.eventClick.id = <<"ABC-2", "::", "w2">>
    /\ deb.eventChange # Unset
    /\ Len(calls) = 1
    /\ calls[1].op = "update"
    /\ calls[1].status = "failed"
    /\ calls[1].issueKey = "ABC-2"
    /\ calls[1].worklogId = "w2"
    /\ remote = EditRemote

====
